---- MODULE Spec2Model ----
(***************************************************************************)
(* Beth Yw? data model: Measure (measure.cpp), Area and Areas (areas.cpp), *)
(* and the ingestion helpers of bethyw.cpp, as state machines.             *)
(*                                                                         *)
(* A std::map is a function whose domain is the set of keys present.  A    *)
(* double is an exact rational [num, den] in lowest terms; den = 0 stands  *)
(* for the IEEE infinities (num = 1 or -1) and NaN (num = 0).  A           *)
(* std::string that the code inspects character by character is a sequence *)
(* of one-character strings; a string the code only copies or compares is  *)
(* a TLA+ string.                                                          *)
(***************************************************************************)
EXTENDS Integers, Sequences, FiniteSets, TLC

VARIABLES
    measure,    \* the Measure under test: [codename, label, readings]
    args,       \* the arguments its constructor was called with
    setLog,     \* history: year -> value of the latest setValue(year, _)
    incoming,   \* the argument of the latest merge / setArea / populate call
    before,     \* the receiver's state when the latest call started
    ret,        \* what the latest call returned or threw
    areas,      \* Areas::areas: local authority code -> Area
    passed,     \* history: the codes passed to setArea so far
    calls       \* history: the number of setArea calls so far

vars == <<measure, args, setLog, incoming, before, ret, areas, passed, calls>>

-----------------------------------------------------------------------------
(* Bounds of the model.                                                    *)

NumYears == 3       \* years 1999 .. 1998 + NumYears
MaxValue == 2       \* readings are 0 .. MaxValue
MaxCodeLen == 3     \* a codename has at most MaxCodeLen characters

Years == 1999 .. (1998 + NumYears)
Values == 0 .. MaxValue
Chars == {"P", "p", "O", "1"}
Labels == {"Population", "pop"}
Codenames == UNION {[1 .. n -> Chars] : n \in 0 .. MaxCodeLen}

\* what a read through an iterator of an empty map may find in memory
Junk == -1 .. 1

None == [none |-> TRUE]

-----------------------------------------------------------------------------
(* Doubles as exact rationals.                                             *)

Abs(n) == IF n < 0 THEN -n ELSE n
Sign(n) == IF n < 0 THEN -1 ELSE IF n > 0 THEN 1 ELSE 0

RECURSIVE GCD(_, _)
GCD(a, b) == IF b = 0 THEN a ELSE GCD(b, a % b)

Rat(n, d) ==
    IF d = 0 THEN [num |-> Sign(n), den |-> 0]
    ELSE LET g == GCD(Abs(n), Abs(d))
             s == Sign(d)
         IN  [num |-> s * (n \div g), den |-> s * (d \div g)]

FromInt(i) == [num |-> i, den |-> 1]
Zero == FromInt(0)
RatAdd(a, b) == Rat(a.num * b.den + b.num * a.den, a.den * b.den)
RatSub(a, b) == Rat(a.num * b.den - b.num * a.den, a.den * b.den)
RatMul(a, b) == Rat(a.num * b.num, a.den * b.den)
RatDiv(a, b) == Rat(a.num * b.den, a.den * b.num)

-----------------------------------------------------------------------------
(* std::map and std::string primitives.                                    *)

EmptyMap == [k \in {} |-> 0]

\* m[k] = v / find(k)->second = v
MapPut(m, k, v) == [x \in DOMAIN m \cup {k} |-> IF x = k THEN v ELSE m[x]]

\* std::map::insert of one pair: does nothing when the key is present
MapInsert(m, k, v) == IF k \in DOMAIN m THEN m ELSE MapPut(m, k, v)

\* std::map::insert(first, last): every pair of src whose key is absent
MapInsertRange(m, src) ==
    [x \in DOMAIN m \cup DOMAIN src |-> IF x \in DOMAIN m THEN m[x] ELSE src[x]]

MinKey(m) == CHOOSE k \in DOMAIN m : \A x \in DOMAIN m : k <= x
MaxKey(m) == CHOOSE k \in DOMAIN m : \A x \in DOMAIN m : k >= x

\* std::tolower on one character
tolower(c) ==
    IF c = "P" THEN "p" ELSE IF c = "O" THEN "o"
    ELSE IF c = "A" THEN "a" ELSE IF c = "L" THEN "l" ELSE c

-----------------------------------------------------------------------------
(* Measure (measure.cpp).                                                  *)

\* Measure::Measure: the lowercased copy is built in temp and then dropped
MeasureLowerCtor(codename, label) ==
    [codename |-> [i \in 1 .. Len(codename) |-> tolower(codename[i])],
     label |-> label, readings |-> EmptyMap]

Measure(codename, label) ==
    LET temp == [i \in 1 .. Len(codename) |-> tolower(codename[i])]
    IN  [codename |-> codename, label |-> label, readings |-> EmptyMap]

getCodename(self) == self.codename
getLabel(self) == self.label

\* operator[] in place of find(): a year without a reading yields 0
getValueOrDefault(self, key) ==
    IF key \notin DOMAIN self.readings
    THEN [err |-> "", val |-> Zero]
    ELSE [err |-> "", val |-> FromInt(self.readings[key])]

\* Measure::getValue: the value, or the out_of_range it throws
getValue(self, key) ==
    IF key \notin DOMAIN self.readings
    THEN [err |-> "out_of_range", val |-> Zero]
    ELSE [err |-> "", val |-> FromInt(self.readings[key])]

setValueInsertOnly(self, key, value) ==
    [self EXCEPT !.readings = MapInsert(self.readings, key, value)]

\* Measure::setValue
setValue(self, key, value) ==
    LET found == IF key \in DOMAIN self.readings
                 THEN MapPut(self.readings, key, value)
                 ELSE self.readings
    IN  [self EXCEPT !.readings = MapInsert(found, key, value)]

\* Measure::setLabel
setLabel(self, label) == [self EXCEPT !.label = label]

\* Measure::size
size(self) == Cardinality(DOMAIN self.readings)

\* readings.begin()->second and readings.rbegin()->second; on an empty map
\* both iterators equal end() and the read finds whatever is in memory
beginSecond(self, junk) ==
    IF self.readings = EmptyMap THEN junk[1]
    ELSE self.readings[MinKey(self.readings)]
rbeginSecond(self, junk) ==
    IF self.readings = EmptyMap THEN junk[2]
    ELSE self.readings[MaxKey(self.readings)]

getDifferenceReversed(self, junk) ==
    RatSub(FromInt(beginSecond(self, junk)), FromInt(rbeginSecond(self, junk)))

\* Measure::getDifference
getDifference(self, junk) ==
    RatSub(FromInt(rbeginSecond(self, junk)), FromInt(beginSecond(self, junk)))

getDifferenceAsPercentageOfLast(self, junk) ==
    IF getDifference(self, junk) = Zero THEN Zero
    ELSE RatMul(RatDiv(getDifference(self, junk),
                       FromInt(rbeginSecond(self, junk))), FromInt(100))

\* Measure::getDifferenceAsPercentage
getDifferenceAsPercentage(self, junk) ==
    IF getDifference(self, junk) = Zero THEN Zero
    ELSE RatMul(RatDiv(getDifference(self, junk),
                       FromInt(beginSecond(self, junk))), FromInt(100))

RECURSIVE SumOver(_, _)
SumOver(m, keys) ==
    IF keys = {} THEN 0
    ELSE LET k == CHOOSE x \in keys : TRUE
         IN  m[k] + SumOver(m, keys \ {k})

getAverageOverSpan(self) ==
    IF size(self) = 0 THEN Zero
    ELSE Rat(SumOver(self.readings, DOMAIN self.readings),
             MaxKey(self.readings) - MinKey(self.readings) + 1)

\* Measure::getAverage
getAverage(self) ==
    IF size(self) = 0 THEN Zero
    ELSE RatDiv(FromInt(SumOver(self.readings, DOMAIN self.readings)),
                FromInt(size(self)))

\* the keys of a std::map in the order its iteration visits them
RECURSIVE InOrder(_, _)
InOrder(m, keys) ==
    IF keys = {} THEN <<>>
    ELSE LET k == CHOOSE x \in keys : \A y \in keys : x <= y
         IN  <<k>> \o InOrder(m, keys \ {k})

\* operator<< for a Measure: the three lines it writes, whatever the
\* readings: the names, the years with the titles of the three statistics,
\* and the values with the statistics
Measure_output(self, junk) ==
    LET years == InOrder(self.readings, DOMAIN self.readings)
    IN  <<[kind |-> "names", label |-> self.label, codename |-> self.codename],
          [kind |-> "years", years |-> years,
           titles |-> <<"Average", "Diff.", " % Diff.">>],
          [kind |-> "values",
           values |-> [i \in 1 .. Len(years) |-> FromInt(self.readings[years[i]])],
           average |-> getAverage(self),
           difference |-> getDifference(self, junk),
           percentage |-> getDifferenceAsPercentage(self, junk)]>>

\* Measure::merge: the range insert keeps the receiver's value for a year
\* that both maps hold
Measure_merge(self, measureNew) ==
    [self EXCEPT !.readings = MapInsertRange(self.readings, measureNew.readings)]

-----------------------------------------------------------------------------
(* Area (area.cpp, which is not among the sources: its member functions    *)
(* are the ones section 4.2 of the specification describes).               *)

\* Area::Area
Area(localAuthorityCode) ==
    [localAuthorityCode |-> localAuthorityCode, names |-> EmptyMap,
     measures |-> EmptyMap]

\* Area::setName: upsert
setName(self, lang, name) == [self EXCEPT !.names = MapPut(self.names, lang, name)]

\* Area::setMeasure: Measure::merge into the Measure held under the codename,
\* or insert
setMeasure(self, codename, m) ==
    IF codename \in DOMAIN self.measures
    THEN [self EXCEPT !.measures[codename] = Measure_merge(@, m)]
    ELSE [self EXCEPT !.measures = MapPut(self.measures, codename, m)]

RECURSIVE SetNames(_, _, _)
SetNames(self, names, langs) ==
    IF langs = {} THEN self
    ELSE LET l == CHOOSE x \in langs : TRUE
         IN  SetNames(setName(self, l, names[l]), names, langs \ {l})

RECURSIVE SetMeasures(_, _, _)
SetMeasures(self, measures, codenames) ==
    IF codenames = {} THEN self
    ELSE LET c == CHOOSE x \in codenames : TRUE
         IN  SetMeasures(setMeasure(self, c, measures[c]), measures, codenames \ {c})

\* Area::merge: setName for every name of other and setMeasure for every
\* Measure of other
Area_merge(self, other) ==
    SetMeasures(SetNames(self, other.names, DOMAIN other.names),
                other.measures, DOMAIN other.measures)

-----------------------------------------------------------------------------
(* Helpers of bethyw.cpp.                                                  *)

Digits == {"0", "1", "2", "3", "4", "5", "6", "7", "8", "9"}

DigitValue(ch) ==
    CASE ch = "0" -> 0 [] ch = "1" -> 1 [] ch = "2" -> 2 [] ch = "3" -> 3
      [] ch = "4" -> 4 [] ch = "5" -> 5 [] ch = "6" -> 6 [] ch = "7" -> 7
      [] ch = "8" -> 8 [] ch = "9" -> 9

\* std::stoi on a string of digits
RECURSIVE stoi(_)
stoi(str) ==
    IF str = <<>> THEN 0
    ELSE 10 * stoi(SubSeq(str, 1, Len(str) - 1)) + DigitValue(str[Len(str)])

\* the cutoff compared with > in place of >=
validateYearUpTo2021(yearSting) ==
    IF yearSting = <<"0">> THEN [err |-> "", val |-> 0]
    ELSE IF Len(yearSting) # 4 THEN [err |-> "invalid_argument", val |-> 0]
    ELSE IF \E i \in 1 .. Len(yearSting) : yearSting[i] \notin Digits
         THEN [err |-> "invalid_argument", val |-> 0]
    ELSE IF stoi(yearSting) > 2021 THEN [err |-> "invalid_argument", val |-> 0]
    ELSE [err |-> "", val |-> stoi(yearSting)]

\* BethYw::validateYear: the year, or the invalid_argument it throws
validateYear(yearSting) ==
    IF yearSting = <<"0">> THEN [err |-> "", val |-> 0]
    ELSE IF Len(yearSting) # 4 THEN [err |-> "invalid_argument", val |-> 0]
    ELSE IF \E i \in 1 .. Len(yearSting) : yearSting[i] \notin Digits
         THEN [err |-> "invalid_argument", val |-> 0]
    ELSE IF stoi(yearSting) >= 2021 THEN [err |-> "invalid_argument", val |-> 0]
    ELSE [err |-> "", val |-> stoi(yearSting)]

\* BethYw::convertToLower
convertToLower(string) == [i \in 1 .. Len(string) |-> tolower(string[i])]

\* BethYw::insensitiveEquals
insensitiveEquals(a, b) == convertToLower(a) = convertToLower(b)

\* BethYw::parseAreasArg from the value at index i on, areasSet being the set
\* built so far (areas in the code); args is [count, values] for the option
RECURSIVE parseAreasArgFrom(_, _, _)
parseAreasArgFrom(areaArgs, i, areasSet) ==
    IF i > Len(areaArgs) THEN areasSet
    ELSE IF ~insensitiveEquals(areaArgs[i], <<"a", "l", "l">>)
    THEN parseAreasArgFrom(areaArgs, i + 1, areasSet \cup {areaArgs[i]})
    ELSE {}

parseAreasArg(parsed) ==
    IF parsed.count = 0 THEN {} ELSE parseAreasArgFrom(parsed.values, 1, {})

\* BethYw::parseMeasuresArg: "all" clears the set and the loop goes on
RECURSIVE parseMeasuresArgFrom(_, _, _)
parseMeasuresArgFrom(measuresArgs, i, measures) ==
    IF i > Len(measuresArgs) THEN measures
    ELSE IF ~insensitiveEquals(measuresArgs[i], <<"a", "l", "l">>)
    THEN parseMeasuresArgFrom(measuresArgs, i + 1, measures \cup {measuresArgs[i]})
    ELSE parseMeasuresArgFrom(measuresArgs, i + 1, {})

parseMeasuresArg(parsed) ==
    IF parsed.count = 0 THEN {} ELSE parseMeasuresArgFrom(parsed.values, 1, {})

\* BethYw::filterContains (declared in bethyw.h, which is not among the
\* sources): whether the set the pointer refers to holds the string
filterContains(filter, string) == string \in filter.set

-----------------------------------------------------------------------------
(* Areas (areas.cpp).                                                      *)

\* the comparison with end() the wrong way round: the insert finds the key
\* taken, and at() throws before anything is stored for a new code
setAreaInverted(ar, localAuthorityCode, area) ==
    IF localAuthorityCode \in DOMAIN ar
    THEN MapInsert(ar, localAuthorityCode, area)
    ELSE ar

\* Areas::setArea: for a stored code the argument is the receiver of the
\* merge and the stored Area its argument, and the result replaces the entry
setArea(ar, localAuthorityCode, area) ==
    IF localAuthorityCode \notin DOMAIN ar
    THEN MapInsert(ar, localAuthorityCode, area)
    ELSE MapPut(ar, localAuthorityCode, Area_merge(area, ar[localAuthorityCode]))

\* operator[] in place of find() and at(): a code that is not stored yields
\* a default Area
getAreaOrDefault(ar, localAuthorityCode) ==
    IF localAuthorityCode \notin DOMAIN ar
    THEN [err |-> "", val |-> Area(localAuthorityCode)]
    ELSE [err |-> "", val |-> ar[localAuthorityCode]]

\* Areas::getArea: the Area, or the out_of_range it throws
getArea(ar, localAuthorityCode) ==
    IF localAuthorityCode \notin DOMAIN ar
    THEN [err |-> "out_of_range", val |-> None]
    ELSE [err |-> "", val |-> ar[localAuthorityCode]]

\* Areas::size
Areas_size(ar) == Cardinality(DOMAIN ar)

\* both ends of the range left out
inYearsFilterExclusive(f, year) ==
    f.allYears \/ (year > f.yearStart /\ year < f.yearEnd)

\* the test that guards setValue in populateFromWelshStatsJSON
inYearsFilter(f, year) ==
    f.allYears \/ (year >= f.yearStart /\ year <= f.yearEnd)

\* One element of the JSON array "value": a JSON object is a function from
\* its keys.  Reading a key that is absent yields null, and the conversion of
\* null to std::string or double throws nlohmann's type_error.
\* f holds the filters as the function's prologue derived them.
populateRecord(ar, data, f) ==
    IF "AUTH_CODE" \notin DOMAIN data THEN [areas |-> ar, err |-> "json.type_error"]
    ELSE
    LET localAuthorityCode == data["AUTH_CODE"] IN
    IF ~(f.allAreas \/ filterContains(f.areasFilter, localAuthorityCode))
    THEN [areas |-> ar, err |-> ""]
    ELSE IF localAuthorityCode \notin DOMAIN ar /\ "AUTH_NAME_ENG" \notin DOMAIN data
    THEN [areas |-> ar, err |-> "json.type_error"]
    ELSE
    LET ar1 == IF localAuthorityCode \notin DOMAIN ar
               THEN MapInsert(ar, localAuthorityCode,
                              setName(Area(localAuthorityCode), "eng",
                                      data["AUTH_NAME_ENG"]))
               ELSE ar
    IN
    IF "MEASURE_CODE" \notin DOMAIN data THEN [areas |-> ar1, err |-> "json.type_error"]
    ELSE
    LET lowerMeasureCode == convertToLower(data["MEASURE_CODE"]) IN
    IF ~(f.allMeasures \/ filterContains(f.measuresFilter, lowerMeasureCode))
    THEN [areas |-> ar1, err |-> ""]
    ELSE IF {"Data", "MEASURE_NAME", "YEAR"} \ DOMAIN data # {}
    THEN [areas |-> ar1, err |-> "json.type_error"]
    ELSE
    LET measureCode == data["MEASURE_CODE"]
        reading == data["Data"]
        m == Measure(measureCode, data["MEASURE_NAME"])
        year == validateYear(data["YEAR"])
    IN
    IF year.err # "" THEN [areas |-> ar1, err |-> year.err]
    ELSE
    LET m1 == IF inYearsFilter(f, year.val)
              THEN setValue(m, year.val, reading)
              ELSE m
    IN  [areas |-> [ar1 EXCEPT ![localAuthorityCode] = setMeasure(@, measureCode, m1)],
         err |-> ""]

\* the loop over j["value"]: the first exception ends it, with areas as the
\* records before it left them
RECURSIVE populateRecords(_, _, _)
populateRecords(ar, value, f) ==
    IF value = <<>> THEN [areas |-> ar, err |-> ""]
    ELSE LET one == populateRecord(ar, Head(value), f)
         IN  IF one.err # "" THEN one
             ELSE populateRecords(one.areas, Tail(value), f)

\* every area wanted, whatever the area filter holds
filterFlagsAllAreas(areasFilter, measuresFilter, yearsFilter) ==
    [allAreas |-> TRUE,
     allMeasures |-> areasFilter.null \/ measuresFilter.set = {},
     allYears |-> yearsFilter.start = 0 /\ yearsFilter.end = 0,
     areasFilter |-> areasFilter, measuresFilter |-> measuresFilter,
     yearStart |-> yearsFilter.start, yearEnd |-> yearsFilter.end]

\* the prologue of populateFromWelshStatsJSON, for filters that are not
\* null where it reads through them: the range of years and the three flags
filterFlags(areasFilter, measuresFilter, yearsFilter) ==
    [allAreas |-> areasFilter.null \/ areasFilter.set = {},
     allMeasures |-> areasFilter.null \/ measuresFilter.set = {},
     allYears |-> yearsFilter.start = 0 /\ yearsFilter.end = 0,
     areasFilter |-> areasFilter, measuresFilter |-> measuresFilter,
     yearStart |-> yearsFilter.start, yearEnd |-> yearsFilter.end]

\* A std::istream is [good, lines, json]: whether good() holds, the lines
\* successive std::getline calls yield, and what the extraction into a json
\* yields: [ok, value], where ok is false when nlohmann's parser throws
\* parse_error (as it does on a stream that yields no input) and value is the
\* array under "value".
\*
\* Areas::populateFromWelshStatsJSON.  A filter is [null, set] (a
\* StringFilterSet pointer) or [null, start, end] (a YearFilterTuple
\* pointer).  yearsFilter is read before it is compared with nullptr, and
\* measuresFilter is read whenever areasFilter is not null: a null pointer
\* there ends the process.
populateFromWelshStatsJSON(ar, is, areasFilter, measuresFilter, yearsFilter) ==
    IF yearsFilter.null THEN [areas |-> ar, err |-> "SIGSEGV"]
    ELSE IF ~areasFilter.null /\ measuresFilter.null
    THEN [areas |-> ar, err |-> "SIGSEGV"]
    ELSE IF ~is.json.ok THEN [areas |-> ar, err |-> "json.parse_error"]
    ELSE populateRecords(ar, is.json.value,
                         filterFlags(areasFilter, measuresFilter, yearsFilter))

\* Areas::getVerableCSV: the text before the first comma, and the line as
\* the call leaves it; a line without a comma is returned whole and kept
getVerableCSV(line) ==
    IF \A i \in 1 .. Len(line) : line[i] # ","
    THEN [out |-> line, line |-> line]
    ELSE LET pos == CHOOSE i \in 1 .. Len(line) :
                        /\ line[i] = ","
                        /\ \A k \in 1 .. (i - 1) : line[k] # ","
         IN  [out |-> SubSeq(line, 1, pos - 1),
              line |-> SubSeq(line, pos + 1, Len(line))]

\* the body of the while loop of populateFromAuthorityCodeCSV for one line
populateRow(ar, line, all, areasFilter) ==
    LET first == getVerableCSV(line)
        code == first.out
    IN  IF all \/ code \in areasFilter.set
        THEN LET second == getVerableCSV(first.line)
                 third == getVerableCSV(second.line)
                 temp == setName(setName(Area(code), "eng", second.out),
                                 "cym", third.out)
             IN  setArea(ar, code, temp)
        ELSE ar

RECURSIVE populateRows(_, _, _, _)
populateRows(ar, lines, all, areasFilter) ==
    IF lines = <<>> THEN ar
    ELSE populateRows(populateRow(ar, Head(lines), all, areasFilter),
                      Tail(lines), all, areasFilter)

\* Areas::populateFromAuthorityCodeCSV: the first getline takes the header
\* (and fails silently on a stream without lines)
populateFromAuthorityCodeCSV(ar, is, colsSize, areasFilter) ==
    IF colsSize < 3 THEN [areas |-> ar, err |-> "out_of_range"]
    ELSE IF ~is.good THEN [areas |-> ar, err |-> "runtime_error"]
    ELSE [areas |-> populateRows(ar,
                                 IF is.lines = <<>> THEN <<>> ELSE Tail(is.lines),
                                 areasFilter.null \/ areasFilter.set = {},
                                 areasFilter),
          err |-> ""]

\* Areas::populateFromAuthorityByYearCSV
populateFromAuthorityByYearCSV(ar, is, colsSize, areasFilter, measuresFilter, yearsFilter) ==
    [areas |-> ar, err |-> "runtime_error"]

\* Areas::populate with filters
populate(ar, is, type, colsSize, areasFilter, measuresFilter, yearsFilter) ==
    IF type = "AuthorityCodeCSV" /\ ~(colsSize < 3)
    THEN populateFromAuthorityCodeCSV(ar, is, colsSize, areasFilter)
    ELSE IF type = "AuthorityByYearCSV" /\ ~(colsSize < 3)
    THEN populateFromAuthorityByYearCSV(ar, is, colsSize, areasFilter,
                                        measuresFilter, yearsFilter)
    ELSE IF type = "WelshStatsJSON" /\ ~(colsSize < 6)
    THEN populateFromWelshStatsJSON(ar, is, areasFilter, measuresFilter,
                                    yearsFilter)
    ELSE [areas |-> ar, err |-> "runtime_error"]

\* a null StringFilterSet pointer, the default of the areasFilter parameter
NullFilter == [null |-> TRUE, set |-> {}]

\* Areas::populate without filters
populateNoFilters(ar, is, type, colsSize) ==
    IF type = "AuthorityCodeCSV"
    THEN IF colsSize < 3 THEN [areas |-> ar, err |-> "out_of_range"]
         ELSE populateFromAuthorityCodeCSV(ar, is, colsSize, NullFilter)
    ELSE [areas |-> ar, err |-> "runtime_error"]

-----------------------------------------------------------------------------
(* JSON text.  A text is a sequence of tokens [tok, key]: the braces, the  *)
(* comma, and "member" for a whole well-formed member "<key>": {...} of an *)
(* object.                                                                 *)

Token(tok) == [tok |-> tok, key |-> ""]

Member(key) == [tok |-> "member", key |-> key]

\* Area::getJSONString (area.cpp, which is not among the sources).  The
\* specification gives the JSON of an Area as an object keyed by its code;
\* what part of that text the function returns is not known, so shape names
\* one of the forms a function of the Area alone can give it: the member,
\* the member in braces, or the member with a comma after or before it.
JSONShapes == {"member", "object", "member,", ",member"}

Area_getJSONString(self, shape) ==
    CASE shape = "member" -> <<Member(self.localAuthorityCode)>>
      [] shape = "object" ->
            <<Token("{"), Member(self.localAuthorityCode), Token("}")>>
      [] shape = "member," -> <<Member(self.localAuthorityCode), Token(",")>>
      [] shape = ",member" -> <<Token(","), Member(self.localAuthorityCode)>>

\* json::parse on a text that is to be one object: the keys of the object,
\* or the parse_error it throws.  Members are separated by single commas,
\* with none before the first and none after the last.
json_parse(text) ==
    LET inner == SubSeq(text, 2, Len(text) - 1)
        wellFormed ==
            /\ Len(text) >= 2
            /\ text[1] = Token("{")
            /\ text[Len(text)] = Token("}")
            /\ inner = <<>> \/ Len(inner) % 2 = 1
            /\ \A i \in 1 .. Len(inner) :
                  IF i % 2 = 1 THEN inner[i].tok = "member"
                  ELSE inner[i] = Token(",")
    IN  IF wellFormed
        THEN [err |-> "", val |-> {inner[i].key : i \in {k \in 1 .. Len(inner) : k % 2 = 1}}]
        ELSE [err |-> "json.parse_error", val |-> {}]

\* the text the loop of Areas::toJSON appends for the areas in codes
RECURSIVE appendAreas(_, _, _)
appendAreas(ar, codes, shape) ==
    IF codes = {} THEN <<>>
    ELSE LET code == CHOOSE c \in codes : TRUE
         IN  Area_getJSONString(ar[code], shape)
                 \o appendAreas(ar, codes \ {code}, shape)

\* Areas::toJSON: the keys of the object whose dump it returns (the dump of
\* an object without keys is the string {}), or the parse_error it throws
Areas_toJSON(ar, shape) ==
    json_parse(<<Token("{")>> \o appendAreas(ar, DOMAIN ar, shape) \o <<Token("}")>>)

-----------------------------------------------------------------------------
(* The loaders of bethyw.cpp.  A file is [is]: the stream std::ifstream    *)
(* gives for it, which is not good when the file cannot be opened.  A call *)
(* ends as "returned", as "exit" (the handler has written 'Error importing *)
(* dataset:' and called exit) or as "propagated" (the exception named in   *)
(* err leaves the function).  open counts the std::ifstream objects that    *)
(* InputFile::open has put on the heap with their file open and that       *)
(* nothing has closed or deleted when the call ends: no statement of       *)
(* either loader, of populate or of InputFile does so.                     *)

\* InputFile::open: the stream, or the runtime_error it throws
InputFile_open(file) ==
    IF ~file.is.good THEN [err |-> "runtime_error", is |-> file.is]
    ELSE [err |-> "", is |-> file.is]

\* the handler of both loaders: catch (const std::runtime_error&)
catchRuntimeError(out, open) ==
    IF out.err = ""
    THEN [areas |-> out.areas, end |-> "returned", err |-> "", open |-> open]
    ELSE IF out.err = "runtime_error"
    THEN [areas |-> out.areas, end |-> "exit", err |-> out.err, open |-> open]
    ELSE [areas |-> out.areas, end |-> "propagated", err |-> out.err, open |-> open]

\* a null YearFilterTuple pointer
NullYears == [null |-> TRUE, start |-> 0, end |-> 0]

\* BethYw::loadAreas; file stands for dir + InputFiles::AREAS.FILE, and
\* InputFiles::AREAS names the parser AuthorityCodeCSV and three columns
loadAreas(ar, file, areasFilter) ==
    LET opened == InputFile_open(file)
    IN  catchRuntimeError(
            IF opened.err # "" THEN [areas |-> ar, err |-> opened.err]
            ELSE populate(ar, opened.is, "AuthorityCodeCSV", 3,
                          areasFilter, NullFilter, NullYears),
            IF opened.err # "" THEN 0 ELSE 1)

\* BethYw::loadDatasets: a dataset is [file, PARSER, COLS], COLS being the
\* size of its column mapping; the first call that does not return ends the
\* loop
RECURSIVE loadDatasetsFrom(_, _, _, _, _, _)
loadDatasetsFrom(ar, datasetsToImport, areasFilter, measuresFilter, yearsFilter, open) ==
    IF datasetsToImport = <<>>
    THEN [areas |-> ar, end |-> "returned", err |-> "", open |-> open]
    ELSE LET dataset == Head(datasetsToImport)
             opened == InputFile_open(dataset.file)
             one == catchRuntimeError(
                        IF opened.err # "" THEN [areas |-> ar, err |-> opened.err]
                        ELSE populate(ar, opened.is, dataset.PARSER, dataset.COLS,
                                      areasFilter, measuresFilter, yearsFilter),
                        IF opened.err # "" THEN open ELSE open + 1)
         IN  IF one.end # "returned" THEN one
             ELSE loadDatasetsFrom(one.areas, Tail(datasetsToImport), areasFilter,
                                   measuresFilter, yearsFilter, one.open)

loadDatasets(ar, datasetsToImport, areasFilter, measuresFilter, yearsFilter) ==
    loadDatasetsFrom(ar, datasetsToImport, areasFilter, measuresFilter, yearsFilter, 0)

-----------------------------------------------------------------------------
(* An Areas, from its construction on: setArea, getArea and size with      *)
(* Areas of a few shapes.                                                  *)

MaxCalls == 2       \* setArea is called at most MaxCalls times

Codes == {"W06000001", "W06000002"}

PartialMaps(keys, vals) == UNION {[S -> vals] : S \in SUBSET keys}

AreaNames ==
    {n \in PartialMaps({"eng", "cym"}, {"Foo", "Bar"}) :
        "cym" \in DOMAIN n => n["cym"] = "Bar"}

AreaReadings ==
    {r \in PartialMaps({1999, 2000}, {1, 2}) :
        2000 \in DOMAIN r => r[2000] = 1}

AreaMeasures ==
    {EmptyMap} \cup
    {[c \in {<<"p">>} |-> [codename |-> c, label |-> "pop", readings |-> r]] :
        r \in AreaReadings}

AreaInputs ==
    {[localAuthorityCode |-> c, names |-> n, measures |-> ms] :
        c \in Codes, n \in AreaNames, ms \in AreaMeasures}

InitAreas ==
    /\ areas = EmptyMap
    /\ passed = {}
    /\ incoming = None
    /\ before = None
    /\ ret = [op |-> "Areas", err |-> "", val |-> 0]
    /\ calls = 0
    /\ args = None
    /\ measure = None
    /\ setLog = EmptyMap

SetArea(area) ==
    /\ calls < MaxCalls
    /\ calls' = calls + 1
    /\ before' = getArea(areas, area.localAuthorityCode)
    /\ incoming' = area
    /\ areas' = setArea(areas, area.localAuthorityCode, area)
    /\ passed' = passed \cup {area.localAuthorityCode}
    /\ ret' = [op |-> "setArea", err |-> "", val |-> 0]
    /\ UNCHANGED <<measure, args, setLog>>

GetArea(code) ==
    /\ ret' = [op |-> "getArea", arg |-> code, err |-> getArea(areas, code).err,
               val |-> getArea(areas, code).val]
    /\ UNCHANGED <<measure, args, setLog, incoming, before, areas, passed, calls>>

AreasSize ==
    /\ ret' = [op |-> "size", err |-> "", val |-> Areas_size(areas)]
    /\ UNCHANGED <<measure, args, setLog, incoming, before, areas, passed, calls>>

NextAreas ==
    \/ \E area \in AreaInputs : SetArea(area)
    \/ \E code \in Codes : GetArea(code)
    \/ AreasSize

SpecAreas == InitAreas /\ [][NextAreas]_vars

-----------------------------------------------------------------------------
(* The same Areas rendered as JSON after any of its setArea calls.         *)

ToJSON(shape) ==
    /\ ret' = [op |-> "toJSON", arg |-> shape, err |-> Areas_toJSON(areas, shape).err,
               val |-> Areas_toJSON(areas, shape).val]
    /\ UNCHANGED <<measure, args, setLog, incoming, before, areas, passed, calls>>

NextRender ==
    \/ \E area \in AreaInputs : SetArea(area)
    \/ \E shape \in JSONShapes : ToJSON(shape)

SpecRender == InitAreas /\ [][NextRender]_vars

-----------------------------------------------------------------------------
(* The ingestion of WelshStatsJSON datasets into one Areas: any sequence   *)
(* of populate calls, each with a document of a few records and the        *)
(* filters of its caller.                                                  *)

MaxRecords == 2     \* a document's "value" array has at most MaxRecords records

YearStrings == {<<"1", "9", "9", "9">>, <<"2", "0", "0", "0">>}

IngestRecords ==
    {[AUTH_CODE |-> "W06000001", AUTH_NAME_ENG |-> "Foo",
      MEASURE_CODE |-> <<"p">>, MEASURE_NAME |-> "pop",
      YEAR |-> y, Data |-> d] : y \in YearStrings, d \in {1, 2}}

Documents == UNION {[1 .. n -> IngestRecords] : n \in 0 .. MaxRecords}

NoFilter == [null |-> FALSE, set |-> {}]

\* a stream over a well-formed document {"value": [...]}, which is one line
JSONStream(value) ==
    [good |-> TRUE, lines |-> <<<<"{">>>>, json |-> [ok |-> TRUE, value |-> value]]

YearFilters ==
    {[null |-> FALSE, start |-> 0, end |-> 0],
     [null |-> FALSE, start |-> 2000, end |-> 2000]}

InitIngest ==
    /\ areas = EmptyMap
    /\ passed = {}
    /\ calls = 0
    /\ incoming = None
    /\ before = None
    /\ ret = [op |-> "Areas", err |-> "", val |-> 0]
    /\ args = None
    /\ measure = None
    /\ setLog = EmptyMap

PopulateFromWelshStatsJSON(value, areasFilter, measuresFilter, yearsFilter) ==
    LET out == populateFromWelshStatsJSON(areas, JSONStream(value), areasFilter,
                                          measuresFilter, yearsFilter)
    IN  /\ before' = areas
        /\ incoming' = [value |-> value, areasFilter |-> areasFilter,
                        measuresFilter |-> measuresFilter,
                        yearsFilter |-> yearsFilter]
        /\ areas' = out.areas
        /\ ret' = [op |-> "populate", err |-> out.err, val |-> 0]
        /\ UNCHANGED <<measure, args, setLog, passed, calls>>

NextIngest ==
    \/ \E value \in Documents, yearsFilter \in YearFilters :
          PopulateFromWelshStatsJSON(value, NoFilter, NoFilter, yearsFilter)
    \/ AreasSize

SpecIngest == InitIngest /\ [][NextIngest]_vars

-----------------------------------------------------------------------------
(* populate with every format, column mappings of several sizes and        *)
(* streams in every condition, on one Areas.  The filters are those of the *)
(* caller: they are fixed from the start.                                  *)

MaxRows == 2        \* an areas file has at most MaxRows rows after its header

SourceDataTypes == {"AuthorityCodeCSV", "AuthorityByYearCSV", "WelshStatsJSON"}

\* sizes of the SourceColumnMapping: too small for every format, enough for
\* the CSV formats only, enough for all
ColsSizes == {2, 5, 6}

CSVLine(code, eng, cym) == code \o <<",">> \o eng \o <<",">> \o cym

CSVHeader == CSVLine(<<"H">>, <<"E">>, <<"C">>)

CSVRows ==
    {CSVLine(<<"A">>, <<"F">>, <<"f">>), CSVLine(<<"A">>, <<"G">>, <<"g">>),
     CSVLine(<<"B">>, <<"F">>, <<"f">>)}

CSVStreams ==
    {[good |-> TRUE, lines |-> <<CSVHeader>> \o rows, json |-> [ok |-> FALSE]] :
        rows \in UNION {[1 .. n -> CSVRows] : n \in 0 .. MaxRows}}

PopulateRecords ==
    {[AUTH_CODE |-> <<"A">>, AUTH_NAME_ENG |-> <<"G">>,
      MEASURE_CODE |-> <<"p">>, MEASURE_NAME |-> "pop",
      YEAR |-> <<"1", "9", "9", "9">>, Data |-> 1]}

\* a file of readings by year: the header names the years 1999 and 2000, and
\* the row of area A holds 1 for 1999 and an empty cell for 2000
ByYearStream ==
    [good |-> TRUE,
     lines |-> <<CSVLine(<<"H">>, <<"1", "9", "9", "9">>, <<"2", "0", "0", "0">>),
                 CSVLine(<<"A">>, <<"1">>, <<>>)>>,
     json |-> [ok |-> FALSE]]

\* a stream that is not open, an open stream without content, an areas
\* file and a document
Streams ==
    {[good |-> FALSE, lines |-> <<>>, json |-> [ok |-> FALSE]],
     [good |-> TRUE, lines |-> <<>>, json |-> [ok |-> FALSE]],
     [good |-> TRUE, lines |-> <<CSVHeader, CSVLine(<<"A">>, <<"F">>, <<"f">>)>>,
      json |-> [ok |-> FALSE]],
     ByYearStream}
    \cup {JSONStream(<<r>>) : r \in PopulateRecords}

AllYears == [null |-> FALSE, start |-> 0, end |-> 0]

PopulateFilters ==
    {[areasFilter |-> a, measuresFilter |-> NoFilter, yearsFilter |-> AllYears] :
        a \in {NullFilter, NoFilter} \cup
              {[null |-> FALSE, set |-> {c}] : c \in {<<"A">>, <<"a">>}}}

InitPopulate ==
    /\ args \in PopulateFilters
    /\ areas = EmptyMap
    /\ passed = {}
    /\ calls = 0
    /\ incoming = None
    /\ before = None
    /\ ret = [op |-> "Areas", err |-> "", val |-> 0]
    /\ measure = None
    /\ setLog = EmptyMap

Populate(is, type, colsSize) ==
    LET out == populate(areas, is, type, colsSize, args.areasFilter,
                        args.measuresFilter, args.yearsFilter)
    IN  /\ before' = areas
        /\ incoming' = [is |-> is, type |-> type, colsSize |-> colsSize]
        /\ areas' = out.areas
        /\ ret' = [op |-> "populate", err |-> out.err, val |-> 0]
        /\ UNCHANGED <<measure, args, setLog, passed, calls>>

PopulateNoFilters(is, type, colsSize) ==
    LET out == populateNoFilters(areas, is, type, colsSize)
    IN  /\ before' = areas
        /\ incoming' = [is |-> is, type |-> type, colsSize |-> colsSize]
        /\ areas' = out.areas
        /\ ret' = [op |-> "populateNoFilters", err |-> out.err, val |-> 0]
        /\ UNCHANGED <<measure, args, setLog, passed, calls>>

NextPopulate ==
    \/ \E is \in Streams, type \in SourceDataTypes, colsSize \in ColsSizes :
          Populate(is, type, colsSize)
    \/ \E is \in Streams, type \in SourceDataTypes, colsSize \in ColsSizes :
          PopulateNoFilters(is, type, colsSize)

SpecPopulate == InitPopulate /\ [][NextPopulate]_vars

-----------------------------------------------------------------------------
(* The areas file read into one Areas, any number of times: files of a few *)
(* rows, some with one code twice, under the area filter of the run.       *)

NextAreasFile ==
    \E is \in CSVStreams : Populate(is, "AuthorityCodeCSV", 3)

SpecAreasFile == InitPopulate /\ [][NextAreasFile]_vars

-----------------------------------------------------------------------------
(* The area filter of a run applied to WelshStatsJSON documents: records   *)
(* of two areas under two names, ingested by any sequence of populate      *)
(* calls.                                                                  *)

AreaFilterRecords ==
    {[AUTH_CODE |-> c, AUTH_NAME_ENG |-> n,
      MEASURE_CODE |-> <<"p">>, MEASURE_NAME |-> "pop",
      YEAR |-> <<"1", "9", "9", "9">>, Data |-> 1] :
        c \in Codes, n \in {"Foo", "Bar"}}

AreaFilterDocuments == UNION {[1 .. n -> AreaFilterRecords] : n \in 0 .. MaxRecords}

AreaFilters ==
    {[areasFilter |-> a, measuresFilter |-> NoFilter, yearsFilter |-> AllYears] :
        a \in {NullFilter, NoFilter} \cup
              {[null |-> FALSE, set |-> {c}] : c \in {"W06000001", "w06000001"}}}

InitAreaFilter ==
    /\ args \in AreaFilters
    /\ areas = EmptyMap
    /\ passed = {}
    /\ calls = 0
    /\ incoming = None
    /\ before = None
    /\ ret = [op |-> "Areas", err |-> "", val |-> 0]
    /\ measure = None
    /\ setLog = EmptyMap

AreaFilterStreams == {JSONStream(value) : value \in AreaFilterDocuments}

NextAreaFilter ==
    \E is \in AreaFilterStreams : Populate(is, "WelshStatsJSON", 6)

SpecAreaFilter == InitAreaFilter /\ [][NextAreaFilter]_vars

-----------------------------------------------------------------------------
(* The measure filter of a run applied to WelshStatsJSON documents:        *)
(* records of one area whose measure codes differ in letters and in case,  *)
(* and filters as parseMeasuresArg builds them, which holds the values of  *)
(* the command line as they were typed.                                    *)

MeasureFilterRecords ==
    {[AUTH_CODE |-> "W06000001", AUTH_NAME_ENG |-> "Foo",
      MEASURE_CODE |-> c, MEASURE_NAME |-> "pop",
      YEAR |-> <<"1", "9", "9", "9">>, Data |-> 1] :
        c \in {<<"p">>, <<"P">>, <<"d">>}}

MeasureFilterDocuments ==
    UNION {[1 .. n -> MeasureFilterRecords] : n \in 0 .. MaxRecords}

MeasureFilters ==
    {[areasFilter |-> a, measuresFilter |-> m, yearsFilter |-> AllYears] :
        a \in {NullFilter, NoFilter},
        m \in {NoFilter} \cup {[null |-> FALSE, set |-> {c}] : c \in {<<"p">>, <<"P">>}}}

InitMeasureFilter ==
    /\ args \in MeasureFilters
    /\ areas = EmptyMap
    /\ passed = {}
    /\ calls = 0
    /\ incoming = None
    /\ before = None
    /\ ret = [op |-> "Areas", err |-> "", val |-> 0]
    /\ measure = None
    /\ setLog = EmptyMap

MeasureFilterStreams == {JSONStream(value) : value \in MeasureFilterDocuments}

NextMeasureFilter ==
    \E is \in MeasureFilterStreams : Populate(is, "WelshStatsJSON", 6)

SpecMeasureFilter == InitMeasureFilter /\ [][NextMeasureFilter]_vars

-----------------------------------------------------------------------------
(* The year filter of a run applied to WelshStatsJSON documents: records   *)
(* of one area and measure for consecutive years, and the ranges           *)
(* parseYearsArg can build around them.                                    *)

YearFilterYears == {1999, 2000, 2001}

YearString(year) ==
    CASE year = 1999 -> <<"1", "9", "9", "9">>
      [] year = 2000 -> <<"2", "0", "0", "0">>
      [] year = 2001 -> <<"2", "0", "0", "1">>

YearFilterRecords ==
    {[AUTH_CODE |-> "W06000001", AUTH_NAME_ENG |-> "Foo",
      MEASURE_CODE |-> <<"p">>, MEASURE_NAME |-> "pop",
      YEAR |-> YearString(y), Data |-> 1] : y \in YearFilterYears}

YearFilterDocuments ==
    UNION {[1 .. n -> YearFilterRecords] : n \in 0 .. MaxRecords}

YearRanges ==
    {[areasFilter |-> NoFilter, measuresFilter |-> NoFilter,
      yearsFilter |-> [null |-> FALSE, start |-> r[1], end |-> r[2]]] :
        r \in {<<0, 0>>, <<2000, 2000>>, <<1999, 2000>>, <<0, 2000>>, <<2000, 0>>}}

InitYearFilter ==
    /\ args \in YearRanges
    /\ areas = EmptyMap
    /\ passed = {}
    /\ calls = 0
    /\ incoming = None
    /\ before = None
    /\ ret = [op |-> "Areas", err |-> "", val |-> 0]
    /\ measure = None
    /\ setLog = EmptyMap

YearFilterStreams == {JSONStream(value) : value \in YearFilterDocuments}

NextYearFilter ==
    \E is \in YearFilterStreams : Populate(is, "WelshStatsJSON", 6)

SpecYearFilter == InitYearFilter /\ [][NextYearFilter]_vars

-----------------------------------------------------------------------------
(* The three filters together, each of them null, empty ((0, 0) for the    *)
(* years) or holding one value, applied to WelshStatsJSON documents whose  *)
(* records differ in area, in measure and in year.                         *)

FiltersRecords ==
    {[AUTH_CODE |-> r[1], AUTH_NAME_ENG |-> "Foo", MEASURE_CODE |-> r[2],
      MEASURE_NAME |-> "pop", YEAR |-> YearString(r[3]), Data |-> 1] :
        r \in {<<"W06000001", <<"p">>, 1999>>, <<"W06000001", <<"d">>, 2000>>,
               <<"W06000002", <<"p">>, 2000>>}}

FiltersDocuments == UNION {[1 .. n -> FiltersRecords] : n \in 0 .. MaxRecords}

FiltersStreams == {JSONStream(value) : value \in FiltersDocuments}

Filters ==
    {[areasFilter |-> a, measuresFilter |-> m, yearsFilter |-> y] :
        a \in {NullFilter, NoFilter, [null |-> FALSE, set |-> {"W06000001"}]},
        m \in {NullFilter, NoFilter, [null |-> FALSE, set |-> {<<"p">>}]},
        y \in {NullYears, AllYears, [null |-> FALSE, start |-> 2000, end |-> 2000]}}

InitFilters ==
    /\ args \in Filters
    /\ areas = EmptyMap
    /\ passed = {}
    /\ calls = 0
    /\ incoming = None
    /\ before = None
    /\ ret = [op |-> "Areas", err |-> "", val |-> 0]
    /\ measure = None
    /\ setLog = EmptyMap

NextFilters ==
    \E is \in FiltersStreams : Populate(is, "WelshStatsJSON", 6)

SpecFilters == InitFilters /\ [][NextFilters]_vars

-----------------------------------------------------------------------------
(* WelshStatsJSON documents with records that make the populate call fail  *)
(* partway: a year string validateYear rejects, and an object without the  *)
(* key of the year, after or before records that are in order.             *)

PartialRecords ==
    {[AUTH_CODE |-> "W06000001", AUTH_NAME_ENG |-> "Foo", MEASURE_CODE |-> <<"p">>,
      MEASURE_NAME |-> "pop", YEAR |-> YearString(1999), Data |-> 1],
     [AUTH_CODE |-> "W06000002", AUTH_NAME_ENG |-> "Bar", MEASURE_CODE |-> <<"p">>,
      MEASURE_NAME |-> "pop", YEAR |-> YearString(2000), Data |-> 2],
     [AUTH_CODE |-> "W06000001", AUTH_NAME_ENG |-> "Foo", MEASURE_CODE |-> <<"p">>,
      MEASURE_NAME |-> "pop", YEAR |-> <<"9", "9">>, Data |-> 1],
     [AUTH_CODE |-> "W06000002", AUTH_NAME_ENG |-> "Bar", MEASURE_CODE |-> <<"p">>,
      MEASURE_NAME |-> "pop", Data |-> 2]}

PartialDocuments == UNION {[1 .. n -> PartialRecords] : n \in 0 .. MaxRecords}

PartialStreams == {JSONStream(value) : value \in PartialDocuments}

InitPartial ==
    /\ args = [areasFilter |-> NoFilter, measuresFilter |-> NoFilter,
               yearsFilter |-> AllYears]
    /\ areas = EmptyMap
    /\ passed = {}
    /\ calls = 0
    /\ incoming = None
    /\ before = None
    /\ ret = [op |-> "Areas", err |-> "", val |-> 0]
    /\ measure = None
    /\ setLog = EmptyMap

NextPartial ==
    \E is \in PartialStreams : Populate(is, "WelshStatsJSON", 6)

SpecPartial == InitPartial /\ [][NextPartial]_vars

-----------------------------------------------------------------------------
(* Areas files with rows of fewer than three fields: a row without the     *)
(* Welsh name, a row that is a code only, and an empty line, next to a row *)
(* that is in order.                                                       *)

ShortRows ==
    {CSVLine(<<"A">>, <<"F">>, <<"f">>), <<"B", ",", "G">>, <<"B">>, <<>>}

ShortRowStreams ==
    {[good |-> TRUE, lines |-> <<CSVHeader>> \o rows, json |-> [ok |-> FALSE]] :
        rows \in UNION {[1 .. n -> ShortRows] : n \in 0 .. MaxRows}}

NextShortRows ==
    \E is \in ShortRowStreams : Populate(is, "AuthorityCodeCSV", 3)

SpecShortRows == InitPopulate /\ [][NextShortRows]_vars

-----------------------------------------------------------------------------
(* validateYear on every short string over a few digits and a letter.      *)

MaxYearLen == 5     \* a year string has at most MaxYearLen characters

YearChars == {"0", "1", "2", "9", "a"}

YearInputs == UNION {[1 .. n -> YearChars] : n \in 0 .. MaxYearLen}

InitYear ==
    /\ args \in YearInputs
    /\ ret = [op |-> "", err |-> "", val |-> 0]
    /\ areas = EmptyMap
    /\ passed = {}
    /\ calls = 0
    /\ incoming = None
    /\ before = None
    /\ measure = None
    /\ setLog = EmptyMap

ValidateYear ==
    /\ ret' = [op |-> "validateYear", err |-> validateYear(args).err,
               val |-> validateYear(args).val]
    /\ UNCHANGED <<measure, args, setLog, incoming, before, areas, passed, calls>>

NextYear == ValidateYear

SpecYear == InitYear /\ [][NextYear]_vars

-----------------------------------------------------------------------------
(* parseAreasArg and parseMeasuresArg on an option that is absent or has   *)
(* a short list of values, "all" in several spellings among them.          *)

MaxArgs == 3        \* an option has at most MaxArgs values

ArgValues == {<<"a", "l", "l">>, <<"A", "l", "L">>, <<"p">>, <<"O">>}

ParsedArgs ==
    {[count |-> 0, values |-> <<>>]} \cup
    {[count |-> 1, values |-> values] :
        values \in UNION {[1 .. n -> ArgValues] : n \in 1 .. MaxArgs}}

InitArgs ==
    /\ args \in ParsedArgs
    /\ ret = [op |-> "", err |-> "", val |-> {}]
    /\ areas = EmptyMap
    /\ passed = {}
    /\ calls = 0
    /\ incoming = None
    /\ before = None
    /\ measure = None
    /\ setLog = EmptyMap

ParseAreasArg ==
    /\ ret' = [op |-> "parseAreasArg", err |-> "", val |-> parseAreasArg(args)]
    /\ UNCHANGED <<measure, args, setLog, incoming, before, areas, passed, calls>>

ParseMeasuresArg ==
    /\ ret' = [op |-> "parseMeasuresArg", err |-> "", val |-> parseMeasuresArg(args)]
    /\ UNCHANGED <<measure, args, setLog, incoming, before, areas, passed, calls>>

NextArgs == ParseAreasArg \/ ParseMeasuresArg

SpecArgs == InitArgs /\ [][NextArgs]_vars

-----------------------------------------------------------------------------
(* A run of the program from the parsed arguments on: loadAreas on the     *)
(* areas file, then loadDatasets on the datasets asked for, with files in  *)
(* every condition.  calls is the number of loaders that were called.      *)

MaxDatasets == 2    \* at most MaxDatasets datasets are imported

NotOpen == [good |-> FALSE, lines |-> <<>>, json |-> [ok |-> FALSE]]

AreasFiles == {[is |-> is] : is \in {NotOpen} \cup CSVStreams}

\* a record whose year validateYear rejects
BadYearRecords ==
    {[AUTH_CODE |-> <<"A">>, AUTH_NAME_ENG |-> <<"G">>,
      MEASURE_CODE |-> <<"p">>, MEASURE_NAME |-> "pop",
      YEAR |-> <<"9", "9">>, Data |-> 1]}

\* documents that parse, with a good and with a bad record, and a file that
\* holds no JSON
DatasetStreams ==
    {JSONStream(<<r>>) : r \in PopulateRecords \cup BadYearRecords}
    \cup {[good |-> TRUE, lines |-> <<<<"{">>>>, json |-> [ok |-> FALSE]]}

Datasets ==
    {[file |-> [is |-> is], PARSER |-> "WelshStatsJSON", COLS |-> 6] :
        is \in {NotOpen} \cup DatasetStreams}
    \cup {[file |-> [is |-> is], PARSER |-> "AuthorityByYearCSV", COLS |-> 3] :
            is \in {[good |-> TRUE, lines |-> <<CSVHeader>>, json |-> [ok |-> FALSE]]}}

DatasetsToImport == UNION {[1 .. n -> Datasets] : n \in 0 .. MaxDatasets}

RunFilters ==
    {[areasFilter |-> [null |-> FALSE, set |-> a], measuresFilter |-> NoFilter,
      yearsFilter |-> AllYears] : a \in {{}, {<<"A">>}}}

InitRun ==
    /\ args \in RunFilters
    /\ areas = EmptyMap
    /\ calls = 0
    /\ ret = [op |-> "run", end |-> "returned", err |-> "", open |-> 0]
    /\ passed = {}
    /\ incoming = None
    /\ before = None
    /\ measure = None
    /\ setLog = EmptyMap

LoadAreas(file) ==
    LET out == loadAreas(areas, file, args.areasFilter)
    IN  /\ calls = 0
        /\ calls' = 1
        /\ before' = areas
        /\ incoming' = file
        /\ areas' = out.areas
        /\ ret' = [op |-> "loadAreas", end |-> out.end, err |-> out.err,
                   open |-> ret.open + out.open]
        /\ UNCHANGED <<measure, args, setLog, passed>>

LoadDatasets(datasetsToImport) ==
    LET out == loadDatasets(areas, datasetsToImport, args.areasFilter,
                            args.measuresFilter, args.yearsFilter)
    IN  /\ calls = 1
        /\ ret.end = "returned"
        /\ calls' = 2
        /\ before' = areas
        /\ incoming' = datasetsToImport
        /\ areas' = out.areas
        /\ ret' = [op |-> "loadDatasets", end |-> out.end, err |-> out.err,
                   open |-> ret.open + out.open]
        /\ UNCHANGED <<measure, args, setLog, passed>>

NextRun ==
    \/ \E file \in AreasFiles : LoadAreas(file)
    \/ \E datasetsToImport \in DatasetsToImport : LoadDatasets(datasetsToImport)

SpecRun == InitRun /\ [][NextRun]_vars

-----------------------------------------------------------------------------
(* One Measure, from its construction on: any sequence of setValue calls   *)
(* and of calls of its const member functions.                             *)

\* what a call of a Measure leaves in ret: arg is the year getValue was asked
\* for, ub whether the call read through an iterator that equals end()
Returned(op, val) == [op |-> op, arg |-> 0, err |-> "", val |-> val, ub |-> FALSE]

InitOthers ==
    /\ incoming = None
    /\ before = None
    /\ areas = EmptyMap
    /\ passed = {}
    /\ calls = 0

InitMeasure ==
    /\ args = [codename |-> <<"p">>, label |-> "pop"]
    /\ measure = Measure(args.codename, args.label)
    /\ setLog = EmptyMap
    /\ ret = Returned("Measure", Zero)
    /\ InitOthers

SetValue(key, value) ==
    /\ measure' = setValue(measure, key, value)
    /\ setLog' = MapPut(setLog, key, value)
    /\ ret' = Returned("setValue", Zero)
    /\ incoming' = [key |-> key, value |-> value]
    /\ before' = measure
    /\ UNCHANGED <<args, areas, passed, calls>>

GetValue(key) ==
    /\ ret' = [op |-> "getValue", arg |-> key, err |-> getValue(measure, key).err,
               val |-> getValue(measure, key).val, ub |-> FALSE]
    /\ UNCHANGED <<measure, args, setLog, incoming, before, areas, passed, calls>>

Size ==
    /\ ret' = Returned("size", FromInt(size(measure)))
    /\ UNCHANGED <<measure, args, setLog, incoming, before, areas, passed, calls>>

\* on an empty Measure the two reads are undefined behaviour: any outcome
GetDifference ==
    /\ \E junk \in Junk \X Junk :
          ret' = [op |-> "getDifference", arg |-> 0, err |-> "",
                  val |-> getDifference(measure, junk),
                  ub |-> (measure.readings = EmptyMap)]
    /\ UNCHANGED <<measure, args, setLog, incoming, before, areas, passed, calls>>

GetDifferenceAsPercentage ==
    /\ \E junk \in Junk \X Junk :
          ret' = [op |-> "getDifferenceAsPercentage", arg |-> 0, err |-> "",
                  val |-> getDifferenceAsPercentage(measure, junk),
                  ub |-> (measure.readings = EmptyMap)]
    /\ UNCHANGED <<measure, args, setLog, incoming, before, areas, passed, calls>>

GetAverage ==
    /\ ret' = Returned("getAverage", getAverage(measure))
    /\ UNCHANGED <<measure, args, setLog, incoming, before, areas, passed, calls>>

NextMeasure ==
    \/ \E key \in Years, value \in Values : SetValue(key, value)
    \/ \E key \in Years : GetValue(key)
    \/ Size
    \/ GetDifference
    \/ GetDifferenceAsPercentage
    \/ GetAverage

SpecMeasure == InitMeasure /\ [][NextMeasure]_vars

-----------------------------------------------------------------------------
(* The same Measure written to a stream after any of its setValue calls.   *)

\* on an empty Measure the statistics read through end(): any outcome
Output ==
    /\ \E junk \in Junk \X Junk :
          ret' = [op |-> "operator<<", arg |-> 0, err |-> "",
                  val |-> Measure_output(measure, junk),
                  ub |-> (measure.readings = EmptyMap)]
    /\ UNCHANGED <<measure, args, setLog, incoming, before, areas, passed, calls>>

NextOutput ==
    \/ \E key \in Years, value \in Values : SetValue(key, value)
    \/ Output

SpecOutput == InitMeasure /\ [][NextOutput]_vars

-----------------------------------------------------------------------------
(* The construction of a Measure from any codename and label, and the      *)
(* calls that read or change its names.                                    *)

InitConstruct ==
    /\ \E codename \in Codenames, label \in Labels :
          /\ args = [codename |-> codename, label |-> label]
          /\ measure = Measure(codename, label)
    /\ setLog = EmptyMap
    /\ ret = [op |-> "Measure", val |-> <<>>]
    /\ InitOthers

GetCodename ==
    /\ ret' = [op |-> "getCodename", val |-> getCodename(measure)]
    /\ UNCHANGED <<measure, args, setLog, incoming, before, areas, passed, calls>>

SetLabel(label) ==
    /\ measure' = setLabel(measure, label)
    /\ ret' = [op |-> "setLabel", val |-> <<>>]
    /\ UNCHANGED <<args, setLog, incoming, before, areas, passed, calls>>

NextConstruct ==
    \/ GetCodename
    \/ \E label \in Labels : SetLabel(label)

SpecConstruct == InitConstruct /\ [][NextConstruct]_vars

-----------------------------------------------------------------------------
(* Two Measures of one codename, each in a state setValue can produce, and *)
(* the merge of the second into the first.                                 *)

ReadingMaps == UNION {[S -> Values] : S \in SUBSET Years}

InitMerge ==
    /\ \E r \in ReadingMaps, n \in ReadingMaps :
          /\ measure = [codename |-> <<"p">>, label |-> "pop", readings |-> r]
          /\ incoming = [codename |-> <<"p">>, label |-> "pop", readings |-> n]
          /\ setLog = r
    /\ args = [codename |-> <<"p">>, label |-> "pop"]
    /\ before = None
    /\ ret = Returned("setValue", Zero)
    /\ areas = EmptyMap
    /\ passed = {}
    /\ calls = 0

Merge ==
    /\ before' = measure
    /\ measure' = Measure_merge(measure, incoming)
    /\ ret' = Returned("merge", Zero)
    /\ UNCHANGED <<args, setLog, incoming, areas, passed, calls>>

NextMerge == Merge

SpecMerge == InitMerge /\ [][NextMerge]_vars

-----------------------------------------------------------------------------
(* Claims about Measure.                                                   *)

\* C1: after any sequence of setValue calls, getValue(year) returns the value
\* of the latest setValue for that year (and throws for a year never set),
\* and size() is the number of distinct years set.
C1_LatestSetValueWins ==
    /\ \A year \in Years :
          IF year \in DOMAIN setLog
          THEN getValue(measure, year) = [err |-> "", val |-> FromInt(setLog[year])]
          ELSE getValue(measure, year).err = "out_of_range"
    /\ size(measure) = Cardinality(DOMAIN setLog)
    /\ (ret.op = "getValue" /\ ret.arg \in DOMAIN setLog)
          => (ret.err = "" /\ ret.val = FromInt(setLog[ret.arg]))
    /\ ret.op = "size" => ret.val = FromInt(Cardinality(DOMAIN setLog))

\* setValue has just replaced the value of a year that held another value,
\* while a second year holds a reading too
C1_Witness ==
    /\ ret.op = "setValue"
    /\ incoming.key \in DOMAIN before.readings
    /\ before.readings[incoming.key] # incoming.value
    /\ Cardinality(DOMAIN setLog) = 2

\* C2: merge leaves the receiver with the union of both maps, and where both
\* hold a year the value after the merge is the incoming one.
C2_MergeIncomingWins ==
    ret.op = "merge" =>
        /\ DOMAIN measure.readings = DOMAIN before.readings \cup DOMAIN incoming.readings
        /\ \A y \in DOMAIN measure.readings :
              measure.readings[y] = IF y \in DOMAIN incoming.readings
                                    THEN incoming.readings[y]
                                    ELSE before.readings[y]

\* C6: the constructor stores the lowercase form of the codename, the label
\* unchanged and no readings.
C6_CodenameLowercased ==
    /\ ret.op = "Measure" =>
          (getLabel(measure) = args.label /\ measure.readings = EmptyMap)
    /\ ret.op = "getCodename" =>
          /\ Len(ret.val) = Len(args.codename)
          /\ \A i \in 1 .. Len(args.codename) :
                ret.val[i] = tolower(args.codename[i])

\* C7: with at least one reading getDifference() is the value at the largest
\* year minus the value at the smallest year; with exactly one it is 0.
C7_DifferenceLastMinusFirst ==
    (ret.op = "getDifference" /\ setLog # EmptyMap) =>
        /\ ~ret.ub
        /\ ret.val = FromInt(setLog[MaxKey(setLog)] - setLog[MinKey(setLog)])
        /\ Cardinality(DOMAIN setLog) = 1 => ret.val = Zero

\* the later of two years was set first, the two hold different values, and
\* getDifference has returned their difference
C7_Witness ==
    /\ ret.op = "getDifference"
    /\ DOMAIN setLog = {1999, 2001}
    /\ DOMAIN before.readings = {2001}
    /\ incoming.key = 1999
    /\ ret.val = FromInt(MaxValue)

\* C8: on a Measure with no readings getDifference() and
\* getDifferenceAsPercentage() return 0 and read no reading that is absent.
C8_EmptyDifferenceIsZero ==
    (ret.op \in {"getDifference", "getDifferenceAsPercentage"} /\ setLog = EmptyMap)
        => (ret.val = Zero /\ ~ret.ub)

C10_AverageOfLatest ==
    ret.op = "getAverage" =>
        IF setLog = EmptyMap THEN ret.val = Zero
        ELSE /\ ret.val.den > 0
             /\ ret.val.num * Cardinality(DOMAIN setLog)
                   = SumOver(setLog, DOMAIN setLog) * ret.val.den

\* a year was set twice, and the average of the readings of two years that
\* are not adjacent, which is no whole number, was returned
C10_Witness ==
    /\ ret.op = "getAverage"
    /\ DOMAIN setLog = {1999, 2001}
    /\ incoming.key \in DOMAIN before.readings
    /\ before.readings[incoming.key] # incoming.value
    /\ ret.val = [num |-> 3, den |-> 2]

\* C11: getValue(year) fails with out_of_range exactly when no reading was
\* set for the year, returns normally otherwise, and in both cases the
\* readings are the ones set before the call.
C11_GetValueNotFound ==
    ret.op = "getValue" =>
        /\ ret.err \in {"", "out_of_range"}
        /\ ret.err = "out_of_range" <=> ret.arg \notin DOMAIN setLog
        /\ measure.readings = setLog

\* getValue has failed for a year without a reading while two other years
\* hold one
C11_Witness ==
    /\ ret.op = "getValue"
    /\ ret.err = "out_of_range"
    /\ Cardinality(DOMAIN setLog) = 2

\* C23: the text of a Measure without readings is the line of its names
\* followed by one line '<no data>', with no row of years and no row of
\* values; with readings it is the line of names, the years in ascending
\* order and one row of values.
C23_NoDataMarker ==
    ret.op = "operator<<" =>
        /\ ret.val[1].kind = "names"
        /\ IF setLog = EmptyMap
           THEN Len(ret.val) = 2 /\ ret.val[2].kind = "<no data>"
           ELSE /\ Len(ret.val) = 3
                /\ ret.val[2].kind = "years"
                /\ ret.val[3].kind = "values"
                /\ Len(ret.val[2].years) = Cardinality(DOMAIN setLog)
                /\ \A i \in 1 .. Len(ret.val[2].years) :
                      /\ ret.val[2].years[i] \in DOMAIN setLog
                      /\ ret.val[3].values[i] = FromInt(setLog[ret.val[2].years[i]])
                      /\ \A k \in 1 .. (i - 1) :
                            ret.val[2].years[k] < ret.val[2].years[i]

-----------------------------------------------------------------------------
(* Claims about Areas.                                                     *)

\* C3: setArea on a stored code keeps the incoming data on every conflict
\* (names by language, readings by measure and year) and preserves the names
\* and measures that only the stored Area had.
C3_SetAreaIncomingWins ==
    (ret.op = "setArea" /\ before.err = "") =>
        LET old == before.val
            now == areas[incoming.localAuthorityCode]
        IN  /\ DOMAIN now.names = DOMAIN old.names \cup DOMAIN incoming.names
            /\ \A l \in DOMAIN now.names :
                  now.names[l] = IF l \in DOMAIN incoming.names
                                 THEN incoming.names[l] ELSE old.names[l]
            /\ DOMAIN now.measures = DOMAIN old.measures \cup DOMAIN incoming.measures
            /\ \A c \in DOMAIN old.measures \ DOMAIN incoming.measures :
                  now.measures[c] = old.measures[c]
            /\ \A c \in DOMAIN old.measures \cap DOMAIN incoming.measures :
                  \A y \in DOMAIN incoming.measures[c].readings :
                      /\ y \in DOMAIN now.measures[c].readings
                      /\ now.measures[c].readings[y] = incoming.measures[c].readings[y]

\* C4: Areas holds one Area per code passed to setArea, so size() is the
\* number of distinct codes passed; two calls with one code leave it at 1.
C4_OneAreaPerCode ==
    /\ DOMAIN areas = passed
    /\ Areas_size(areas) = Cardinality(passed)
    /\ \A code \in DOMAIN areas : areas[code].localAuthorityCode = code
    /\ ret.op = "size" => ret.val = Cardinality(passed)

\* setArea was called twice with one code, and size() has returned 1
C4_Witness ==
    /\ ret.op = "size"
    /\ ret.val = 1
    /\ calls = 2

\* C12: getArea(code) fails with out_of_range exactly when no Area was stored
\* under the code, otherwise returns the Area stored under it, and stores
\* nothing itself.
C12_GetAreaNotFound ==
    ret.op = "getArea" =>
        /\ ret.err \in {"", "out_of_range"}
        /\ ret.err = "out_of_range" <=> ret.arg \notin passed
        /\ ret.err = "" =>
              (ret.val = areas[ret.arg] /\ ret.val.localAuthorityCode = ret.arg)
        /\ DOMAIN areas = passed

\* getArea has failed for a code that was never stored while the other code
\* is stored
C12_Witness ==
    /\ ret.op = "getArea"
    /\ ret.err = "out_of_range"
    /\ passed # {}

\* the comma-separated fields of a row
RECURSIVE CSVFields(_)
CSVFields(line) ==
    IF \A i \in 1 .. Len(line) : line[i] # "," THEN <<line>>
    ELSE LET pos == CHOOSE i \in 1 .. Len(line) :
                        line[i] = "," /\ \A k \in 1 .. (i - 1) : line[k] # ","
         IN  <<SubSeq(line, 1, pos - 1)>> \o CSVFields(SubSeq(line, pos + 1, Len(line)))

\* whether the run's area filter lets a code through
AreaAccepted(code) ==
    args.areasFilter.null \/ args.areasFilter.set = {} \/ code \in args.areasFilter.set

\* C13: an AuthorityCodeCSV populate discards the header line and, for each
\* following row code,eng,cym, stores an Area for the code with the names eng
\* and cym of the row exactly when the area filter is absent, empty or holds
\* the code; a row whose code the filter does not hold creates or changes no
\* Area.
C13_AuthorityCodeCSVRows ==
    (ret.op = "populate" /\ incoming.type = "AuthorityCodeCSV" /\ ret.err = ""
        /\ incoming.is.good /\ incoming.is.lines # <<>>) =>
        LET rows == Tail(incoming.is.lines)
            header == CSVFields(Head(incoming.is.lines))[1]
        IN  /\ header \in DOMAIN areas <=> header \in DOMAIN before
            /\ \A i \in 1 .. Len(rows) :
                  LET row == CSVFields(rows[i])
                      later == {k \in (i + 1) .. Len(rows) :
                                  CSVFields(rows[k])[1] = row[1]}
                  IN  IF AreaAccepted(row[1])
                      THEN /\ row[1] \in DOMAIN areas
                           /\ later = {} =>
                                 /\ areas[row[1]].names["eng"] = row[2]
                                 /\ areas[row[1]].names["cym"] = row[3]
                      ELSE /\ row[1] \in DOMAIN areas <=> row[1] \in DOMAIN before
                           /\ row[1] \in DOMAIN before =>
                                 areas[row[1]] = before[row[1]]

\* the number of entries the column mapping of a format needs
MinCols(type) == IF type = "WelshStatsJSON" THEN 6 ELSE 3

\* C14: populate with a column mapping smaller than the minimum of its
\* format fails with out_of_range, not with the runtime_error of an
\* unexpected format, and leaves Areas as it was.
C14_SmallMappingOutOfRange ==
    (ret.op \in {"populate", "populateNoFilters"}
        /\ incoming.colsSize < MinCols(incoming.type)) =>
        (ret.err = "out_of_range" /\ areas = before)

\* C15: populate on a stream that is not open or has no content fails with
\* runtime_error, for every format, and leaves Areas as it was.
C15_BadStreamRuntimeError ==
    (ret.op \in {"populate", "populateNoFilters"}
        /\ (~incoming.is.good \/ incoming.is.lines = <<>>)) =>
        (ret.err = "runtime_error" /\ areas = before)

\* the records of the document the latest populate call read
Records == incoming.is.json.value

MeasureAccepted(code) ==
    \/ args.measuresFilter.set = {}
    \/ \E c \in args.measuresFilter.set : convertToLower(c) = convertToLower(code)

\* the codes of the measures an Areas holds for an area, in lowercase
MeasuresOf(ar, code) ==
    IF code \in DOMAIN ar
    THEN {convertToLower(c) : c \in DOMAIN ar[code].measures}
    ELSE {}

\* C17: a WelshStatsJSON populate imports the measure of a record exactly
\* when the measure filter is empty or holds the record's measure code up to
\* case, so that {"P"} lets "p" and "P" through; records with another
\* measure code add no measure.
C17_MeasureFilterIgnoresCase ==
    (ret.op = "populate" /\ ret.err = "") =>
        \A code \in Codes :
            MeasuresOf(areas, code) =
                MeasuresOf(before, code) \cup
                {convertToLower(Records[i]["MEASURE_CODE"]) :
                    i \in {k \in 1 .. Len(Records) :
                              /\ Records[k]["AUTH_CODE"] = code
                              /\ MeasureAccepted(Records[k]["MEASURE_CODE"])}}

\* the years Areas holds a reading for, over all areas and measures
YearsStored(ar) ==
    UNION {UNION {DOMAIN ar[c].measures[m].readings : m \in DOMAIN ar[c].measures} :
              c \in DOMAIN ar}

\* whether the run's year filter lets a year through
YearInRange(y) ==
    \/ args.yearsFilter.start = 0 /\ args.yearsFilter.end = 0
    \/ args.yearsFilter.start <= y /\ y <= args.yearsFilter.end

FourDigitValue(str) ==
    1000 * DigitValue(str[1]) + 100 * DigitValue(str[2])
        + 10 * DigitValue(str[3]) + DigitValue(str[4])

C20_LoadersCatchEveryError ==
    ret.op \in {"loadAreas", "loadDatasets"} =>
        /\ ret.end \in {"returned", "exit"}
        /\ ret.end = "returned" <=> ret.err = ""

\* C21: an AuthorityByYearCSV populate with a sufficient column mapping
\* records, for a row whose area code passes the area filter, one reading per
\* non-empty cell under the year of the header column at its position, on
\* one measure, and no reading for an empty cell.
C21_ByYearReadings ==
    (ret.op = "populate" /\ incoming.type = "AuthorityByYearCSV"
        /\ incoming.colsSize >= 3 /\ incoming.is = ByYearStream
        /\ AreaAccepted(<<"A">>)) =>
        /\ ret.err = ""
        /\ <<"A">> \in DOMAIN areas
        /\ \E m \in DOMAIN areas[<<"A">>].measures :
              /\ 1999 \in DOMAIN areas[<<"A">>].measures[m].readings
              /\ areas[<<"A">>].measures[m].readings[1999] = 1
              /\ 2000 \notin DOMAIN areas[<<"A">>].measures[m].readings

\* C22: toJSON() on an Areas without entries returns the string {}, and on
\* any other Areas it returns one JSON object with exactly one key per
\* stored area code.
C22_ToJSONOneKeyPerArea ==
    ret.op = "toJSON" => (ret.err = "" /\ ret.val = DOMAIN areas)

\* C24: every stream opened for a populate call is closed once that call
\* has returned or failed, so that no stream is open when a loader ends.
C24_StreamsReleased ==
    ret.op \in {"loadAreas", "loadDatasets"} => ret.open = 0

\* whether one of the values of the option is "all" in some spelling
ContainsAll == \E i \in 1 .. Len(args.values) : args.values[i] \in {<<"a", "l", "l">>, <<"A", "l", "L">>}

\* C25: parseAreasArg and parseMeasuresArg return the empty set when a value
\* of the list is "all" in any case, at any position, and otherwise exactly
\* the values of the list.
C25_AllMeansEmptySet ==
    ret.op \in {"parseAreasArg", "parseMeasuresArg"} =>
        ret.val = IF ContainsAll THEN {}
                  ELSE {args.values[i] : i \in 1 .. Len(args.values)}

\* the measures mapping of an area, empty for an area Areas does not hold
MeasuresMapping(ar, code) == IF code \in DOMAIN ar THEN ar[code].measures ELSE EmptyMap

\* C26: a populate from JSON whose records pass the area and measure filters
\* and all have a year outside the bounded year filter leaves the measures
\* mapping of every Area as it was: no reading and no new Measure entry.
C26_OutOfRangeYearAddsNothing ==
    (/\ ret.op = "populate" /\ ret.err = ""
     /\ \A i \in 1 .. Len(Records) :
            \E y \in YearFilterYears :
                Records[i]["YEAR"] = YearString(y) /\ ~YearInRange(y)) =>
        \A code \in DOMAIN areas :
            MeasuresMapping(areas, code) = MeasuresMapping(before, code)

\* whether each filter of the run, taken by itself, lets record r through;
\* a filter that is null lets everything through
AreaFilterAccepts(r) ==
    args.areasFilter.set = {} \/ r["AUTH_CODE"] \in args.areasFilter.set

MeasureFilterAccepts(r) == MeasureAccepted(r["MEASURE_CODE"])

YearFilterAccepts(r) ==
    \E y \in YearFilterYears : r["YEAR"] = YearString(y) /\ YearInRange(y)

\* the years Areas holds a reading for under an area and a measure code
ReadingYears(ar, code, m) ==
    IF code \in DOMAIN ar /\ m \in DOMAIN ar[code].measures
    THEN DOMAIN ar[code].measures[m].readings ELSE {}

\* a null measure or year filter never makes a populate from JSON fail
C27_NullFilterNoFailure == ret.op = "populate" => ret.err = ""

\* the measures of an area grow by the measure codes of the records that the
\* area filter and the measure filter accept, the year filter having no say
C27_MeasuresByMeasureFilter ==
    (ret.op = "populate" /\ ret.err = "") =>
        \A code \in Codes :
            MeasuresOf(areas, code) =
                MeasuresOf(before, code) \cup
                {Records[i]["MEASURE_CODE"] :
                    i \in {k \in 1 .. Len(Records) :
                              /\ Records[k]["AUTH_CODE"] = code
                              /\ AreaFilterAccepts(Records[k])
                              /\ MeasureFilterAccepts(Records[k])}}

\* the readings of a measure grow by the years of the records that each of
\* the three filters accepts
C27_ReadingsByAllFilters ==
    (ret.op = "populate" /\ ret.err = "") =>
        \A code \in Codes, m \in {<<"p">>, <<"d">>} :
            ReadingYears(areas, code, m) =
                ReadingYears(before, code, m) \cup
                {y \in YearFilterYears :
                    \E i \in 1 .. Len(Records) :
                        /\ Records[i]["AUTH_CODE"] = code
                        /\ Records[i]["MEASURE_CODE"] = m
                        /\ Records[i]["YEAR"] = YearString(y)
                        /\ AreaFilterAccepts(Records[i])
                        /\ MeasureFilterAccepts(Records[i])
                        /\ YearFilterAccepts(Records[i])}

\* C27: the three filters of a populate from JSON act independently: a
\* record's measure is accepted by the measure filter alone and its year by
\* the year filter alone, whether the area filter is null, empty or not, and
\* a measure or year filter that is absent accepts everything and never
\* makes the call fail.
C27_FiltersIndependent ==
    /\ C27_NullFilterNoFailure
    /\ C27_MeasuresByMeasureFilter
    /\ C27_ReadingsByAllFilters

\* C28: a populate call that fails partway, on a record with an invalid
\* year string or without one of its keys, leaves Areas exactly as it was
\* before the call.
C28_FailedPopulateLeavesAreas ==
    (ret.op = "populate" /\ ret.err # "") => areas = before

\* the rows of the areas file the latest populate call read
DataRows == Tail(incoming.is.lines)

\* a populate over a file with a row of fewer than three fields fails
C29_ShortRowFails ==
    (/\ ret.op = "populate"
     /\ \E i \in 1 .. Len(DataRows) : Len(CSVFields(DataRows[i])) < 3) =>
        ret.err # ""

\* the names of an Area that a populate has stored are the second and the
\* third field of a row of the file that starts with the Area's code
C29_NamesFromOwnFields ==
    ret.op = "populate" =>
        \A code \in DOMAIN areas \ DOMAIN before :
            \E i \in 1 .. Len(DataRows) :
                LET row == CSVFields(DataRows[i])
                IN  /\ Len(row) >= 3
                    /\ row[1] = code
                    /\ areas[code].names = ("eng" :> row[2]) @@ ("cym" :> row[3])

\* C29: in an AuthorityCodeCSV populate a data row with fewer than three
\* fields, an empty line included, makes the call fail with a parse error,
\* and no Area is stored whose names were taken from another field than the
\* second and the third of its row.
C29_ShortRowsRejected ==
    /\ C29_ShortRowFails
    /\ C29_NamesFromOwnFields

\* the reading Areas holds for an area, measure code and year, if any
StoredReading(ar, code, measureCode, year) ==
    IF code \in DOMAIN ar
        /\ measureCode \in DOMAIN ar[code].measures
        /\ year \in DOMAIN ar[code].measures[measureCode].readings
    THEN {ar[code].measures[measureCode].readings[year]}
    ELSE {}

\* whether the year filter of the latest call lets a record's year through
YearAccepted(data) ==
    \/ incoming.yearsFilter.start = 0 /\ incoming.yearsFilter.end = 0
    \/ /\ validateYear(data["YEAR"]).val >= incoming.yearsFilter.start
       /\ validateYear(data["YEAR"]).val <= incoming.yearsFilter.end

\* C5: when records of one document, or of two successive populate calls,
\* supply a value for the same area, measure code and year, the reading
\* stored afterwards is the value ingested last.
C5_LastIngestedWins ==
    (ret.op = "populate" /\ ret.err = "") =>
        \A i \in 1 .. Len(incoming.value) :
            LET data == incoming.value[i]
                later == {j \in (i + 1) .. Len(incoming.value) :
                            /\ incoming.value[j]["AUTH_CODE"] = data["AUTH_CODE"]
                            /\ incoming.value[j]["MEASURE_CODE"] = data["MEASURE_CODE"]
                            /\ incoming.value[j]["YEAR"] = data["YEAR"]}
            IN  (YearAccepted(data) /\ later = {}) =>
                    StoredReading(areas, data["AUTH_CODE"], data["MEASURE_CODE"],
                                  validateYear(data["YEAR"]).val) = {data["Data"]}

====
